---- MODULE Spec2Model ----
(***************************************************************************)
(* Client-side session and transaction orchestration of the banking        *)
(* front end (src/frontend/src/App.js): AuthProvider (session store),      *)
(* the shared axios client (gateway), the Dashboard's fetchDashboardData   *)
(* (aggregator) and the deposit / transfer / bill-payment handlers.        *)
(*                                                                         *)
(* Execution is single threaded and event driven.  Every async function    *)
(* is cut at its awaits: the part before the first await is one action,    *)
(* each continuation after a settled await is one action.  A request is    *)
(* handled by the remote service in one step (ServerHandle) and its        *)
(* response reaches the client in a later step, so responses of requests   *)
(* in flight arrive in any order.                                          *)
(*                                                                         *)
(* React: state updates made in one continuation are committed together,   *)
(* then the passive effects of that commit run, a child's before its       *)
(* parent's (Dashboard's mount effect before AuthProvider's token effect). *)
(***************************************************************************)
EXTENDS Integers, Sequences, FiniteSets, TLC

\* ------------------------------------------------------------- bounds
\* Async handler invocations (login, register, mount fetch, deposit,
\* transfer, bill payment) started in one behaviour.
MaxCalls == 4

\* ------------------------------------------------------------- values
\* JavaScript null / undefined of a string-valued slot.
Null == "null"
\* JavaScript null of an object-valued slot (dashboardData, user).
NullObj == [null |-> TRUE]

\* Bearer tokens the remote service accepts.
Tokens == {"t1", "t2"}
\* The token a login or registration of this run is answered with.
IssuedTokens == {"t2"}
\* What localStorage holds under 'token' when the page loads.
StoredTokens == {Null, "t1"}
\* Credentials typed into the login form.
Emails == {"a@b.com"}
\* The five options of the bill_type select.
BillTypes == {"electricity", "gas", "water", "telecom", "internet"}
\* Account lists the remote service may hold for the user.
AccountLists == {<< >>, <<1, 2>>}

\* Text is a sequence of one-character strings; '' is << >>.
Str100 == <<"1", "0", "0">>
StrNeg5 == <<"-", "5">>
Str0 == <<"0">>
StrAbc == <<"a", "b", "c">>
StrIban == <<"T", "R", "3", "3">>
StrText == <<"x">>
\* What prompt() returns: << >> is null (cancelled), <<s>> is the text s.
PromptResults == {<< >>, << << >> >>, <<Str100>>, <<StrNeg5>>, <<Str0>>, <<StrAbc>>}

\* ------------------------------------------------------------- parseFloat
Digits == {"0", "1", "2", "3", "4", "5", "6", "7", "8", "9"}
DigitVal(c) == CASE c = "0" -> 0 [] c = "1" -> 1 [] c = "2" -> 2 [] c = "3" -> 3
                 [] c = "4" -> 4 [] c = "5" -> 5 [] c = "6" -> 6 [] c = "7" -> 7
                 [] c = "8" -> 8 [] c = "9" -> 9

RECURSIVE SkipSpace(_, _)
SkipSpace(s, i) == IF i <= Len(s) /\ s[i] = " " THEN SkipSpace(s, i + 1) ELSE i

RECURSIVE DigitsEnd(_, _)
\* First index >= i of s that holds no digit.
DigitsEnd(s, i) == IF i <= Len(s) /\ s[i] \in Digits THEN DigitsEnd(s, i + 1) ELSE i

RECURSIVE DigitsValue(_, _, _)
\* The number written by the digits s[i .. j-1].
DigitsValue(s, i, j) ==
    IF i >= j THEN 0 ELSE DigitsValue(s, i, j - 1) * 10 + DigitVal(s[j - 1])

NaN == [nan |-> TRUE, val |-> 0]
Number(v) == [nan |-> FALSE, val |-> v]

\* JavaScript parseFloat on text without exponent: leading blanks, a sign,
\* digits, '.', digits; NaN when no digit is read.  The value is kept in
\* hundredths (two fraction digits are read).
ParseFloat(s) ==
    LET a == SkipSpace(s, 1)
        neg == a <= Len(s) /\ s[a] = "-"
        b == IF a <= Len(s) /\ s[a] \in {"-", "+"} THEN a + 1 ELSE a
        c == DigitsEnd(s, b)
        dot == c <= Len(s) /\ s[c] = "."
        d == IF dot THEN DigitsEnd(s, c + 1) ELSE c
        fracLen == IF dot THEN d - (c + 1) ELSE 0
        frac == IF fracLen = 0 THEN 0
                ELSE IF fracLen = 1 THEN DigitVal(s[c + 1]) * 10
                ELSE DigitVal(s[c + 1]) * 10 + DigitVal(s[c + 2])
        mag == DigitsValue(s, b, c) * 100 + frac
    IN  IF c = b /\ fracLen = 0 THEN NaN
        ELSE Number(IF neg THEN 0 - mag ELSE mag)

\* JavaScript x > 0 on a parseFloat result.
Positive(n) == ~n.nan /\ n.val > 0

\* ------------------------------------------------------------- state
VARIABLES
    storage,        \* localStorage 'token': Null or a token
    token,          \* AuthProvider state token
    user,           \* AuthProvider state user
    authHeader,     \* axios.defaults.headers.common['Authorization'], Null when unset
    loginLoading,   \* LoginPage state loading
    dashId,         \* number of Dashboard instances mounted so far
    dashboardData,  \* Dashboard state dashboardData
    loading,        \* Dashboard state loading
    transferData,   \* Dashboard state transferData
    billData,       \* Dashboard state billData
    effects,        \* passive effects of the last commit still to run, in order
    calls,          \* async invocations awaiting a response: id -> record
    nextId,         \* id of the next invocation
    srvAccounts,    \* remote service: the user's account ids
    ledger,         \* remote service: committed transactions, oldest first
    acked,          \* history: ledger length after the latest mutation whose success
                    \* the mounted Dashboard has been told of (0: none)
    event           \* the handler invocation that ended in the last step, if one did

vars == <<storage, token, user, authHeader, loginLoading, dashId, dashboardData,
          loading, transferData, billData, effects, calls, nextId, srvAccounts,
          ledger, acked, event>>

session == <<storage, token, user, authHeader>>
dashState == <<dashboardData, loading, transferData, billData>>
server == <<srvAccounts, ledger>>

\* ------------------------------------------------------------- results
NoResp == [pending |-> TRUE]
\* What a handler shows or returns: { success: true }, { success: false,
\* error }, alert(message), nothing, or an uncaught exception.
Success(msg) == [kind |-> "success", message |-> msg]
Failure(msg) == [kind |-> "failure", message |-> msg]
\* Silent shown as a failure alert.
Silent_asFailure == [kind |-> "failure", message |-> ""]
Silent == [kind |-> "silent", message |-> ""]
Thrown(msg) == [kind |-> "exception", message |-> msg]
NoResult == [kind |-> "running", message |-> ""]

\* event after a step that ends no handler invocation.
NoEvent == [op |-> "", id |-> 0, call |-> NoResp, result |-> NoResult, awaited |-> ""]
\* event after the step that ends invocation id of handler op: the
\* invocation as it was before the step, what the handler returned or
\* showed, and what its last await of fetchDashboardData() gave it.
Finish(op, id, call, result, awaited) ==
    [op |-> op, id |-> id, call |-> call, result |-> result, awaited |-> awaited]

\* ------------------------------------------------------------- gateway
\* `Bearer ${token}`
Bearer(t) == "Bearer " \o t

\* axios merges axios.defaults.headers.common into the request when the
\* call is made.  issuedWith records the session token at that moment.
Request(endpoint, data) ==
    [endpoint |-> endpoint, auth |-> authHeader, data |-> data, issuedWith |-> token]

Ok(data) == [ok |-> TRUE, response |-> TRUE, status |-> 200, detail |-> Null, data |-> data]
HttpError(status, detail) ==
    [ok |-> FALSE, response |-> TRUE, status |-> status, detail |-> detail, data |-> NullObj]
NetworkError ==
    [ok |-> FALSE, response |-> FALSE, status |-> 0, detail |-> Null, data |-> NullObj]

\* error.response?.data?.detail || fallback
ErrorDetail(resp, fallback) ==
    IF resp.response /\ resp.detail /= Null /\ resp.detail /= "" THEN resp.detail
    ELSE fallback

\* ------------------------------------------------------------- remote service
\* The ledger service of spec section 6, as the client sees it.
UserOf(data) == [email |-> data.email]

Authenticated(req) == \E t \in Tokens : req.auth = Bearer(t)

Signed(tx) == IF tx.transaction_type = "deposit" THEN tx.amount.val ELSE 0 - tx.amount.val

RECURSIVE Balance(_, _)
Balance(a, txs) ==
    IF txs = << >> THEN 0
    ELSE Balance(a, Tail(txs)) + (IF Head(txs).account = a THEN Signed(Head(txs)) ELSE 0)

RECURSIVE Total(_, _)
Total(accs, txs) ==
    IF accs = << >> THEN 0 ELSE Balance(Head(accs), txs) + Total(Tail(accs), txs)

Reverse(s) == [i \in 1..Len(s) |-> s[Len(s) + 1 - i]]

\* GET /dashboard -> {total_balance, accounts[], recent_transactions[], cards[]}
Body(accs, txs) ==
    [total_balance |-> Total(accs, txs),
     accounts |-> [i \in 1..Len(accs) |-> [id |-> accs[i], balance |-> Balance(accs[i], txs)]],
     recent_transactions |-> Reverse(txs),
     cards |-> << >>]

TxType(endpoint) ==
    CASE endpoint = "deposit" -> "deposit"
      [] endpoint = "transfer" -> "transfer"
      [] endpoint = "pay-bill" -> "payment"

Mutations == {"deposit", "transfer", "pay-bill"}

\* Failure answers.  A login, registration or mutation is rejected with an
\* explanation or gets no response at all; a dashboard read fails with a
\* bare HTTP 500; a request without a valid bearer token is refused.
Rejections == {HttpError(400, "Insufficient balance"), NetworkError}
FetchFailures == {HttpError(500, Null)}
Unauthenticated == {HttpError(401, "Unauthorized")}

\* The answers the service may give to request req.
Responses(req) ==
    IF req.endpoint \in {"login", "register"}
    THEN {Ok([token |-> t, user |-> UserOf(req.data)]) : t \in IssuedTokens} \cup Rejections
    ELSE IF ~Authenticated(req) THEN Unauthenticated
    ELSE IF req.endpoint = "dashboard" THEN {Ok(Body(srvAccounts, ledger))} \cup FetchFailures
    ELSE {Ok(NullObj)} \cup Rejections

\* The service handles the request of invocation id; a mutation it accepts
\* is committed to the ledger.
ServerHandle(id) ==
    /\ id \in DOMAIN calls
    /\ calls[id].resp = NoResp
    /\ \E r \in Responses(calls[id].req) :
         LET req == calls[id].req
             commits == r.ok /\ req.endpoint \in Mutations
         IN  /\ ledger' = IF commits
                          THEN Append(ledger, [transaction_type |-> TxType(req.endpoint),
                                               account |-> req.data.account,
                                               amount |-> req.data.amount])
                          ELSE ledger
             /\ calls' = [calls EXCEPT ![id].resp = r,
                                       ![id].commit = IF commits THEN Len(ledger) + 1 ELSE @]
    /\ event' = NoEvent
    /\ UNCHANGED <<session, loginLoading, dashId, dashState, effects, nextId, srvAccounts, acked>>

\* ------------------------------------------------------------- rendering
DefaultTransfer == [to_iban |-> << >>, amount |-> << >>, description |-> << >>]
DefaultBill == [bill_type |-> "electricity", provider |-> << >>,
                account_number |-> << >>, amount |-> << >>]

\* A new async invocation of Dashboard instance d awaiting its request.
NewCall(kind, d, pc, req) ==
    [kind |-> kind, dash |-> d, pc |-> pc, req |-> req, resp |-> NoResp,
     commit |-> 0, fetches |-> IF pc = "get" THEN 1 ELSE 0, replaced |-> 0 - 1]

Without(f, id) == [k \in DOMAIN f \ {id} |-> f[k]]
With(f, id, v) == [k \in DOMAIN f \cup {id} |-> IF k = id THEN v ELSE f[k]]

\* {token ? <Dashboard /> : <LoginPage />}: the commit that follows a
\* change of the token from old to new.  A Dashboard or LoginPage that
\* mounts starts from its initial state; the state of one that unmounts
\* is gone; AuthProvider's effect depends on [token].
Render(old, new) ==
    IF old = Null /\ new /= Null
    THEN /\ dashId' = dashId + 1
         /\ dashboardData' = NullObj
         /\ loading' = TRUE
         /\ transferData' = DefaultTransfer
         /\ billData' = DefaultBill
         /\ loginLoading' = FALSE
         /\ acked' = 0
         /\ effects' = <<"Dashboard", "AuthProvider">>
    ELSE IF old /= Null /\ new = Null
    THEN /\ dashId' = dashId
         /\ dashboardData' = NullObj
         /\ loading' = TRUE
         /\ transferData' = DefaultTransfer
         /\ billData' = DefaultBill
         /\ loginLoading' = FALSE
         /\ acked' = 0
         /\ effects' = <<"AuthProvider">>
    ELSE /\ UNCHANGED <<dashId, dashState, loginLoading, acked>>
         /\ effects' = IF old /= new THEN <<"AuthProvider">> ELSE effects

\* Whether Dashboard instance d is the one on screen.
Mounted(d) == token /= Null /\ d = dashId
\* Nothing else runs before the passive effects of the last commit.
Idle == effects = << >>

\* ------------------------------------------------------------- AuthProvider
\* useState(null), useState(localStorage.getItem('token')) and the first render.
Init ==
    /\ storage \in StoredTokens
    /\ token = storage
    /\ user = NullObj
    /\ authHeader = Null
    /\ loginLoading = FALSE
    /\ dashId = IF token /= Null THEN 1 ELSE 0
    /\ dashboardData = NullObj
    /\ loading = TRUE
    /\ transferData = DefaultTransfer
    /\ billData = DefaultBill
    /\ effects = IF token /= Null THEN <<"Dashboard", "AuthProvider">> ELSE <<"AuthProvider">>
    /\ calls = << >>
    /\ nextId = 1
    /\ srvAccounts \in AccountLists
    /\ ledger = << >>
    /\ acked = 0
    /\ event = NoEvent

\* useEffect(() => { if (token) axios.defaults...Authorization = `Bearer ${token}` }, [token])
AuthProvider_useEffect ==
    /\ effects /= << >>
    /\ Head(effects) = "AuthProvider"
    /\ effects' = Tail(effects)
    /\ authHeader' = IF token /= Null THEN Bearer(token) ELSE authHeader
    /\ event' = NoEvent
    /\ UNCHANGED <<storage, token, user, loginLoading, dashId, dashState, calls, nextId, server, acked>>

\* LoginPage.handleSubmit up to the await inside login / register.
handleSubmit(isLogin, email) ==
    /\ Idle
    /\ token = Null
    /\ ~loginLoading
    /\ nextId < MaxCalls
    /\ loginLoading' = TRUE
    /\ calls' = With(calls, nextId,
                     NewCall(IF isLogin THEN "login" ELSE "register", 0, "post",
                             Request(IF isLogin THEN "login" ELSE "register",
                                     [email |-> email])))
    /\ nextId' = nextId + 1
    /\ event' = NoEvent
    /\ UNCHANGED <<session, dashId, dashState, effects, server, acked>>

\* InstallSession without localStorage.setItem('token', newToken).
InstallSession_notPersisted(data) ==
    /\ token' = data.token
    /\ user' = data.user
    /\ storage' = storage
    /\ authHeader' = Bearer(data.token)

\* The session after the try block of login / register ran to its return.
InstallSession(data) ==
    /\ token' = data.token
    /\ user' = data.user
    /\ storage' = data.token
    /\ authHeader' = Bearer(data.token)

\* KeepSession with the token of the missing response persisted on the way.
KeepSession_storesUndefined ==
    /\ storage' = "undefined"
    /\ UNCHANGED <<token, user, authHeader>>

\* The session after the catch block of login / register.
KeepSession == UNCHANGED <<token, user, storage, authHeader>>

\* login: the response arrived with success.
login_try(id) ==
    /\ Idle
    /\ id \in DOMAIN calls
    /\ calls[id].kind = "login"
    /\ calls[id].resp /= NoResp
    /\ calls[id].resp.ok
    /\ InstallSession(calls[id].resp.data)
    /\ Render(token, token')
    /\ calls' = Without(calls, id)
    /\ event' = Finish("login", id, calls[id], Success(""), "")
    /\ UNCHANGED <<nextId, server>>

\* login: the request failed; handleSubmit shows result.error.
login_catch(id) ==
    /\ Idle
    /\ id \in DOMAIN calls
    /\ calls[id].kind = "login"
    /\ calls[id].resp /= NoResp
    /\ ~calls[id].resp.ok
    /\ KeepSession
    /\ loginLoading' = FALSE
    /\ calls' = Without(calls, id)
    /\ event' = Finish("login", id, calls[id], Failure(ErrorDetail(calls[id].resp, "Login failed")), "")
    /\ UNCHANGED <<dashId, dashState, effects, nextId, server, acked>>

\* register: the response arrived with success.
register_try(id) ==
    /\ Idle
    /\ id \in DOMAIN calls
    /\ calls[id].kind = "register"
    /\ calls[id].resp /= NoResp
    /\ calls[id].resp.ok
    /\ InstallSession(calls[id].resp.data)
    /\ Render(token, token')
    /\ calls' = Without(calls, id)
    /\ event' = Finish("register", id, calls[id], Success(""), "")
    /\ UNCHANGED <<nextId, server>>

\* register: the request failed.
register_catch(id) ==
    /\ Idle
    /\ id \in DOMAIN calls
    /\ calls[id].kind = "register"
    /\ calls[id].resp /= NoResp
    /\ ~calls[id].resp.ok
    /\ KeepSession
    /\ loginLoading' = FALSE
    /\ calls' = Without(calls, id)
    /\ event' = Finish("register", id, calls[id],
                       Failure(ErrorDetail(calls[id].resp, "Registration failed")), "")
    /\ UNCHANGED <<dashId, dashState, effects, nextId, server, acked>>

\* ClearSession without delete axios.defaults.headers.common['Authorization'].
ClearSession_keepsHeader ==
    /\ token' = Null
    /\ user' = NullObj
    /\ storage' = Null
    /\ authHeader' = authHeader

\* ClearSession without localStorage.removeItem('token').
ClearSession_keepsStored ==
    /\ token' = Null
    /\ user' = NullObj
    /\ storage' = storage
    /\ authHeader' = Null

\* The session after logout's four statements.
ClearSession ==
    /\ token' = Null
    /\ user' = NullObj
    /\ storage' = Null
    /\ authHeader' = Null

\* logout, from the Dashboard header's button.
logout ==
    /\ Idle
    /\ token /= Null
    /\ ~loading
    /\ ClearSession
    /\ Render(token, token')
    /\ event' = Finish("logout", 0, NoResp, Success(""), "")
    /\ UNCHANGED <<calls, nextId, server>>

\* ------------------------------------------------------------- Dashboard
\* useEffect(() => { fetchDashboardData(); }, []): the mount effect starts
\* fetchDashboardData, which runs to its await.
Dashboard_useEffect ==
    /\ effects /= << >>
    /\ Head(effects) = "Dashboard"
    /\ effects' = Tail(effects)
    /\ calls' = With(calls, nextId, NewCall("fetch", dashId, "get", Request("dashboard", NullObj)))
    /\ nextId' = nextId + 1
    /\ event' = NoEvent
    /\ UNCHANGED <<session, loginLoading, dashId, dashState, server, acked>>

\* FetchTry filling the snapshot only while none is held.
FetchTry_keepsFirst(data, resp) == IF data = NullObj THEN resp.data ELSE data

\* FetchTry splicing the answer's transaction list into the held snapshot.
FetchTry_mergesList(data, resp) ==
    IF data = NullObj THEN resp.data
    ELSE [data EXCEPT !.recent_transactions = resp.data.recent_transactions]

\* FetchTry fenced: an answer listing fewer transactions than the held
\* snapshot is dropped.
FetchTry_keepsNewer(data, resp) ==
    IF data /= NullObj /\ Len(data.recent_transactions) > Len(resp.data.recent_transactions)
    THEN data ELSE resp.data

\* FetchTry adding the answer's total to the total already shown.
FetchTry_accumulates(data, resp) ==
    IF data = NullObj THEN resp.data
    ELSE [resp.data EXCEPT !.total_balance = data.total_balance + @]

\* fetchDashboardData, try block after the await: the snapshot held once
\* the response resp arrived with success.
FetchTry(data, resp) == resp.data

\* FetchCatch clearing the view.
FetchCatch_clears(data) == NullObj

\* fetchDashboardData, catch block: the snapshot held once the request failed.
FetchCatch(data) == data

\* What fetchDashboardData hands to the caller awaiting it: the function
\* has no return statement and its catch block does not rethrow.
FetchReturn(resp) == "undefined"

\* fetchDashboardData after its await, for the Dashboard instance d that
\* started it; a state update of an unmounted instance does nothing.
FetchSettled(d, resp) ==
    IF Mounted(d)
    THEN /\ dashboardData' = IF resp.ok THEN FetchTry(dashboardData, resp)
                             ELSE FetchCatch(dashboardData)
         /\ loading' = FALSE
    ELSE UNCHANGED <<dashboardData, loading>>

\* History: how many transactions the snapshot held before a fetch settles
\* lists (-1: none held), kept with the invocation the fetch ends.
Shown == IF dashboardData = NullObj THEN 0 - 1 ELSE Len(dashboardData.recent_transactions)
Settling(c) == [c EXCEPT !.replaced = Shown]

\* The mount effect's fetchDashboardData: its response arrived.
fetchDashboardData(id) ==
    /\ Idle
    /\ id \in DOMAIN calls
    /\ calls[id].kind = "fetch"
    /\ calls[id].resp /= NoResp
    /\ FetchSettled(calls[id].dash, calls[id].resp)
    /\ calls' = Without(calls, id)
    /\ event' = Finish("fetchDashboardData", id, Settling(calls[id]), Silent,
                       FetchReturn(calls[id].resp))
    /\ UNCHANGED <<session, loginLoading, dashId, transferData, billData, effects, nextId, server, acked>>

\* A valid floating-point number of HTML: an optional '-', digits, and an
\* optional '.' followed by digits.
ValidFloat(s) ==
    LET b == IF Len(s) >= 1 /\ s[1] = "-" THEN 2 ELSE 1
        c == DigitsEnd(s, b)
        dot == c <= Len(s) /\ s[c] = "."
        d == IF dot THEN DigitsEnd(s, c + 1) ELSE c
    IN  /\ d = Len(s) + 1
        /\ IF dot THEN d > c + 1 ELSE c > b

\* e.target.value of a form field holding text: the amount fields are
\* <input type="number">, whose value is '' unless the text is a number.
InputValue(field, text) ==
    IF field = "amount" /\ ~ValidFloat(text) THEN << >> ELSE text

\* onChange of a field of the transfer form:
\* setTransferData({...transferData, [field]: e.target.value})
changeTransfer(field, value) ==
    /\ Idle
    /\ token /= Null
    /\ ~loading
    /\ transferData[field] /= InputValue(field, value)
    /\ transferData' = [transferData EXCEPT ![field] = InputValue(field, value)]
    /\ event' = NoEvent
    /\ UNCHANGED <<session, loginLoading, dashId, dashboardData, loading, billData,
                   effects, calls, nextId, server, acked>>

\* changeBill with bill_type a free text field instead of a <select>.
changeBill_freeText(field, value) ==
    /\ Idle
    /\ token /= Null
    /\ ~loading
    /\ billData[field] /= InputValue(field, value)
    /\ billData' = [billData EXCEPT ![field] = InputValue(field, value)]
    /\ event' = NoEvent
    /\ UNCHANGED <<session, loginLoading, dashId, dashboardData, loading, transferData,
                   effects, calls, nextId, server, acked>>

\* onChange of a field of the bill form: setBillData({...billData, [field]: e.target.value});
\* the bill_type field is a <select>, whose value is one of its options.
changeBill(field, value) ==
    /\ Idle
    /\ token /= Null
    /\ ~loading
    /\ field = "bill_type" => value \in BillTypes
    /\ billData[field] /= InputValue(field, value)
    /\ billData' = [billData EXCEPT ![field] = InputValue(field, value)]
    /\ event' = NoEvent
    /\ UNCHANGED <<session, loginLoading, dashId, dashboardData, loading, transferData,
                   effects, calls, nextId, server, acked>>

\* SubmitEnabled with the control disabled while an invocation of its
\* workflow awaits a response.
SubmitEnabled_whileIdle(kind) == ~\E id \in DOMAIN calls : calls[id].kind = kind

\* Whether the control that starts workflow kind can be used: the deposit
\* buttons and the two submit buttons carry no disabled attribute.
SubmitEnabled(kind) == TRUE

\* DepositAccepted without the parseFloat(amount) > 0 test.
DepositAccepted_nonEmpty(p) == p /= << >> /\ p[1] /= << >>

\* amount && parseFloat(amount) > 0, on what prompt() returned
DepositAccepted(p) == p /= << >> /\ p[1] /= << >> /\ Positive(ParseFloat(p[1]))

\* handleDeposit(accountId) up to its first await; the button exists once
\* per account of the held snapshot.
handleDeposit(accountId, p) ==
    /\ Idle
    /\ token /= Null
    /\ ~loading
    /\ SubmitEnabled("deposit")
    /\ dashboardData /= NullObj
    /\ \E i \in 1..Len(dashboardData.accounts) : dashboardData.accounts[i].id = accountId
    /\ nextId <= MaxCalls
    /\ IF DepositAccepted(p)
       THEN /\ calls' = With(calls, nextId,
                             NewCall("deposit", dashId, "post",
                                     Request("deposit", [account |-> accountId,
                                                         amount |-> ParseFloat(p[1])])))
            /\ nextId' = nextId + 1
            /\ event' = NoEvent
       ELSE /\ UNCHANGED <<calls, nextId>>
            /\ event' = Finish("handleDeposit", 0, NoResp, Silent, "")
    /\ UNCHANGED <<session, loginLoading, dashId, dashState, effects, server, acked>>

\* The browser submits a form only when every required field has a value.
TransferFormValid ==
    /\ transferData.to_iban /= << >>
    /\ transferData.amount /= << >>
    /\ transferData.description /= << >>

BillFormValid ==
    /\ billData.provider /= << >>
    /\ billData.account_number /= << >>
    /\ billData.amount /= << >>

\* SourceAccount taking the last account of the snapshot.
SourceAccount_last(data) == data.accounts[Len(data.accounts)].id

\* dashboardData.accounts[0].id
SourceAccount(data) == data.accounts[1].id

\* handleTransfer(e) up to its first await.  dashboardData.accounts of a
\* null snapshot throws before the try block is entered.
handleTransfer ==
    /\ Idle
    /\ token /= Null
    /\ ~loading
    /\ SubmitEnabled("transfer")
    /\ TransferFormValid
    /\ nextId <= MaxCalls
    /\ IF dashboardData = NullObj
       THEN /\ UNCHANGED <<calls, nextId>>
            /\ event' = Finish("handleTransfer", 0, NoResp, Thrown("TypeError"), "")
       ELSE IF Len(dashboardData.accounts) = 0
       THEN /\ UNCHANGED <<calls, nextId>>
            /\ event' = Finish("handleTransfer", 0, NoResp, Silent, "")
       ELSE /\ calls' = With(calls, nextId,
                             NewCall("transfer", dashId, "post",
                                     Request("transfer",
                                             [account |-> SourceAccount(dashboardData),
                                              to_iban |-> transferData.to_iban,
                                              amount |-> ParseFloat(transferData.amount),
                                              description |-> transferData.description])))
            /\ nextId' = nextId + 1
            /\ event' = NoEvent
    /\ UNCHANGED <<session, loginLoading, dashId, dashState, effects, server, acked>>

\* handleBillPayment(e) up to its first await.
handleBillPayment ==
    /\ Idle
    /\ token /= Null
    /\ ~loading
    /\ SubmitEnabled("bill")
    /\ BillFormValid
    /\ nextId <= MaxCalls
    /\ IF dashboardData = NullObj
       THEN /\ UNCHANGED <<calls, nextId>>
            /\ event' = Finish("handleBillPayment", 0, NoResp, Thrown("TypeError"), "")
       ELSE IF Len(dashboardData.accounts) = 0
       THEN /\ UNCHANGED <<calls, nextId>>
            /\ event' = Finish("handleBillPayment", 0, NoResp, Silent, "")
       ELSE /\ calls' = With(calls, nextId,
                             NewCall("bill", dashId, "post",
                                     Request("pay-bill",
                                             [account |-> SourceAccount(dashboardData),
                                              bill_type |-> billData.bill_type,
                                              provider |-> billData.provider,
                                              account_number |-> billData.account_number,
                                              amount |-> ParseFloat(billData.amount)])))
            /\ nextId' = nextId + 1
            /\ event' = NoEvent
    /\ UNCHANGED <<session, loginLoading, dashId, dashState, effects, server, acked>>

Workflows == {"deposit", "transfer", "bill"}
HandlerOf(kind) ==
    CASE kind = "deposit" -> "handleDeposit"
      [] kind = "transfer" -> "handleTransfer"
      [] kind = "bill" -> "handleBillPayment"

\* The invocation after its mutation request succeeded: await fetchDashboardData().
AwaitRefresh(c) ==
    [c EXCEPT !.pc = "get", !.req = Request("dashboard", NullObj), !.resp = NoResp,
              !.fetches = @ + 1]

\* postResolved with the refresh left out: the success alert at once.
postResolved_skipsRefresh(id) ==
    /\ Idle
    /\ id \in DOMAIN calls
    /\ calls[id].kind \in Workflows
    /\ calls[id].pc = "post"
    /\ calls[id].resp /= NoResp
    /\ calls[id].resp.ok
    /\ calls' = Without(calls, id)
    /\ event' = Finish(calls[id].kind, id, calls[id], Success(""), "")
    /\ UNCHANGED <<session, loginLoading, dashId, dashState, effects, nextId, server, acked>>

\* A workflow's mutation request succeeded: it starts the refresh.
postResolved(id) ==
    /\ Idle
    /\ id \in DOMAIN calls
    /\ calls[id].kind \in Workflows
    /\ calls[id].pc = "post"
    /\ calls[id].resp /= NoResp
    /\ calls[id].resp.ok
    /\ calls' = [calls EXCEPT ![id] = AwaitRefresh(calls[id])]
    /\ acked' = IF Mounted(calls[id].dash) /\ calls[id].commit > acked
                THEN calls[id].commit ELSE acked
    /\ event' = NoEvent
    /\ UNCHANGED <<session, loginLoading, dashId, dashState, effects, nextId, server>>

\* The alert of a workflow's catch block (Turkish text in ASCII).
FailureAlert(kind, resp) ==
    CASE kind = "deposit" -> "Islem basarisiz!"
      [] kind = "transfer" -> "Transfer basarisiz: " \o ErrorDetail(resp, "Bilinmeyen hata")
      [] kind = "bill" -> "Odeme basarisiz: " \o ErrorDetail(resp, "Bilinmeyen hata")

SuccessAlert(kind) ==
    CASE kind = "deposit" -> "Para yatirma islemi basarili!"
      [] kind = "transfer" -> "Transfer basarili!"
      [] kind = "bill" -> "Fatura odemesi basarili!"

\* postRejected with the refresh moved behind the catch block.
postRejected_refetches(id) ==
    /\ Idle
    /\ id \in DOMAIN calls
    /\ calls[id].kind \in Workflows
    /\ calls[id].pc = "post"
    /\ calls[id].resp /= NoResp
    /\ ~calls[id].resp.ok
    /\ calls' = [calls EXCEPT ![id] = AwaitRefresh(calls[id])]
    /\ event' = NoEvent
    /\ UNCHANGED <<session, loginLoading, dashId, dashState, effects, nextId, server, acked>>

\* postRejected sending the request again instead of giving up.
postRejected_retries(id) ==
    /\ Idle
    /\ id \in DOMAIN calls
    /\ calls[id].kind \in Workflows
    /\ calls[id].pc = "post"
    /\ calls[id].resp /= NoResp
    /\ ~calls[id].resp.ok
    /\ calls' = [calls EXCEPT ![id].resp = NoResp]
    /\ event' = NoEvent
    /\ UNCHANGED <<session, loginLoading, dashId, dashState, effects, nextId, server, acked>>

\* A workflow's mutation request failed: its catch block runs.
postRejected(id) ==
    /\ Idle
    /\ id \in DOMAIN calls
    /\ calls[id].kind \in Workflows
    /\ calls[id].pc = "post"
    /\ calls[id].resp /= NoResp
    /\ ~calls[id].resp.ok
    /\ calls' = Without(calls, id)
    /\ event' = Finish(HandlerOf(calls[id].kind), id, calls[id],
                       Failure(FailureAlert(calls[id].kind, calls[id].resp)), "")
    /\ UNCHANGED <<session, loginLoading, dashId, dashState, effects, nextId, server, acked>>

\* ResetDraft putting both forms back to their defaults.
ResetDraft_both(kind, d) ==
    /\ transferData' = IF Mounted(d) THEN DefaultTransfer ELSE transferData
    /\ billData' = IF Mounted(d) THEN DefaultBill ELSE billData

\* The drafts after a workflow's statements that follow await fetchDashboardData().
ResetDraft(kind, d) ==
    /\ transferData' = IF kind = "transfer" /\ Mounted(d) THEN DefaultTransfer ELSE transferData
    /\ billData' = IF kind = "bill" /\ Mounted(d) THEN DefaultBill ELSE billData

\* A workflow's awaited fetchDashboardData() settled: fetchDashboardData's
\* continuation, then the workflow's own up to its alert.
refreshSettled(id) ==
    /\ Idle
    /\ id \in DOMAIN calls
    /\ calls[id].kind \in Workflows
    /\ calls[id].pc = "get"
    /\ calls[id].resp /= NoResp
    /\ FetchSettled(calls[id].dash, calls[id].resp)
    /\ ResetDraft(calls[id].kind, calls[id].dash)
    /\ calls' = Without(calls, id)
    /\ event' = Finish(HandlerOf(calls[id].kind), id, Settling(calls[id]),
                       Success(SuccessAlert(calls[id].kind)), FetchReturn(calls[id].resp))
    /\ UNCHANGED <<session, loginLoading, dashId, effects, nextId, server, acked>>

\* ------------------------------------------------------------- specification
\* What the user types into the forms: one value per field, the fields of
\* a form filled from the top (the first empty one next), and typed while
\* no invocation is awaiting a response.
TransferInputs ==
    [to_iban |-> {StrIban}, amount |-> {Str100}, description |-> {StrText}]
BillInputs ==
    [provider |-> {StrText}, account_number |-> {StrText}, amount |-> {Str100}]
TransferOrder == <<"to_iban", "amount", "description">>
BillOrder == <<"provider", "account_number", "amount">>
\* The first field of draft, in order, that is still empty.
NextField(draft, order) ==
    {order[i] : i \in {j \in 1..Len(order) :
                         /\ draft[order[j]] = << >>
                         /\ \A k \in 1..(j - 1) : draft[order[k]] /= << >>}}
\* The accounts whose deposit button the user presses.
DepositAccounts == {2}
CallIds == 1..MaxCalls

Next ==
    \/ AuthProvider_useEffect
    \/ Dashboard_useEffect
    \/ \E isLogin \in BOOLEAN, email \in Emails : handleSubmit(isLogin, email)
    \/ \E id \in CallIds : login_try(id)
    \/ \E id \in CallIds : login_catch(id)
    \/ \E id \in CallIds : register_try(id)
    \/ \E id \in CallIds : register_catch(id)
    \/ logout
    \/ \E id \in CallIds : fetchDashboardData(id)
    \/ /\ calls = << >>
       /\ \E f \in NextField(transferData, TransferOrder) :
             \E v \in TransferInputs[f] : changeTransfer(f, v)
    \/ /\ calls = << >>
       /\ \E f \in NextField(billData, BillOrder) :
             \E v \in BillInputs[f] : changeBill(f, v)
    \/ \E a \in DepositAccounts, p \in PromptResults : handleDeposit(a, p)
    \/ handleTransfer
    \/ handleBillPayment
    \/ \E id \in CallIds : postResolved(id)
    \/ \E id \in CallIds : postRejected(id)
    \/ \E id \in CallIds : refreshSettled(id)
    \/ \E id \in CallIds : ServerHandle(id)

Spec == Init /\ [][Next]_vars

\* A second specification for the two forms: the user logs in and works
\* with the transfer and bill forms only, typing any of the texts below
\* into any field, in any order, while no invocation awaits a response
\* ('cable' is no option of the bill_type select, 'abc' no number).
FormTransferInputs ==
    [to_iban |-> {StrIban}, amount |-> {StrNeg5, StrAbc}, description |-> {StrText}]
FormBillInputs ==
    [bill_type |-> {"gas", "cable"}, provider |-> {StrText},
     account_number |-> {StrText}, amount |-> {Str0, StrAbc}]

FormsNext ==
    \/ AuthProvider_useEffect
    \/ Dashboard_useEffect
    \/ \E email \in Emails : handleSubmit(TRUE, email)
    \/ \E id \in CallIds : login_try(id)
    \/ \E id \in CallIds : login_catch(id)
    \/ \E id \in CallIds : fetchDashboardData(id)
    \/ /\ calls = << >>
       /\ \E f \in DOMAIN FormTransferInputs :
             \E v \in FormTransferInputs[f] : changeTransfer(f, v)
    \/ /\ calls = << >>
       /\ \E f \in DOMAIN FormBillInputs :
             \E v \in FormBillInputs[f] : changeBill(f, v)
    \/ handleTransfer
    \/ handleBillPayment
    \/ \E id \in CallIds : postResolved(id)
    \/ \E id \in CallIds : postRejected(id)
    \/ \E id \in CallIds : refreshSettled(id)
    \/ \E id \in CallIds : ServerHandle(id)

FormsSpec == Init /\ [][FormsNext]_vars

\* A third specification, with the scheduling the run time gives: the user
\* logs in and out and uses the deposit buttons and the transfer form;
\* every request is answered in the end, the effects of a commit run, and
\* the continuation of an await runs once its promise has settled.
LiveNext ==
    \/ AuthProvider_useEffect
    \/ Dashboard_useEffect
    \/ \E email \in Emails : handleSubmit(TRUE, email)
    \/ \E id \in CallIds : login_try(id)
    \/ \E id \in CallIds : login_catch(id)
    \/ logout
    \/ \E id \in CallIds : fetchDashboardData(id)
    \/ /\ calls = << >>
       /\ \E f \in NextField(transferData, TransferOrder) :
             \E v \in TransferInputs[f] : changeTransfer(f, v)
    \/ \E a \in DepositAccounts, p \in PromptResults : handleDeposit(a, p)
    \/ handleTransfer
    \/ \E id \in CallIds : postResolved(id)
    \/ \E id \in CallIds : postRejected(id)
    \/ \E id \in CallIds : refreshSettled(id)
    \/ \E id \in CallIds : ServerHandle(id)

Fairness ==
    /\ WF_vars(AuthProvider_useEffect)
    /\ WF_vars(Dashboard_useEffect)
    /\ WF_vars(\E id \in CallIds : ServerHandle(id))
    /\ WF_vars(\E id \in CallIds : postResolved(id))
    /\ WF_vars(\E id \in CallIds : postRejected(id))
    /\ WF_vars(\E id \in CallIds : refreshSettled(id))

LiveSpec == Init /\ [][LiveNext]_vars /\ Fairness

\* ------------------------------------------------------------- properties
Handlers == {"handleDeposit", "handleTransfer", "handleBillPayment"}
AuthKinds == {"login", "register"}
\* The transaction type a workflow's mutation is committed as.
TxOfKind(kind) ==
    CASE kind = "deposit" -> "deposit"
      [] kind = "transfer" -> "transfer"
      [] kind = "bill" -> "payment"

\* C1: when a login or register call ends on a success answer {token, user},
\* the state it leaves has token, persisted token and user equal to the
\* answer's, the Authorization header 'Bearer ' + that token, and the call
\* returned a success result.
C1_SuccessInstallsSession ==
    (event.op \in AuthKinds /\ event.call.resp.ok) =>
        /\ token = event.call.resp.data.token
        /\ user = event.call.resp.data.user
        /\ storage = event.call.resp.data.token
        /\ authHeader = Bearer(event.call.resp.data.token)
        /\ event.result.kind = "success"

C1_Witness ==
    /\ event.op = "login"
    /\ event.call.resp.ok
    /\ token = "t2"
    /\ user = [email |-> "a@b.com"]

\* C2: the step that ends a login or register call whose request failed
\* changes neither token, user, persisted token nor the Authorization
\* header, and the call returns a failure result.
C2_FailureKeepsSession ==
    [][\A id \in CallIds :
         (/\ id \in DOMAIN calls
          /\ calls[id].kind \in AuthKinds
          /\ calls[id].resp /= NoResp
          /\ ~calls[id].resp.ok
          /\ id \notin DOMAIN calls')
         => /\ token' = token
            /\ user' = user
            /\ storage' = storage
            /\ authHeader' = authHeader
            /\ event'.id = id
            /\ event'.result.kind = "failure"]_vars

C2_Witness ==
    /\ event.op = "register"
    /\ ~event.call.resp.ok
    /\ event.result = Failure("Registration failed")
    /\ token = Null

\* C3: a logout step leaves token, user, persisted token and Authorization
\* header absent, starts no request and ends with success.
C3_LogoutClearsSession ==
    [][event'.op = "logout" =>
         /\ token' = Null
         /\ user' = NullObj
         /\ storage' = Null
         /\ authHeader' = Null
         /\ calls' = calls
         /\ event'.result.kind = "success"]_vars

C3_Witness ==
    /\ event.op = "logout"
    /\ token = Null
    /\ calls /= << >>

\* C4: in every reachable state the user profile is present exactly when
\* the token is present.
C4_UserIffToken == (user /= NullObj) <=> (token /= Null)

\* C5: every request issued while the session holds a token carries
\* 'Bearer ' + that token as its Authorization header.
C5_RequestsCarryToken ==
    \A id \in DOMAIN calls :
        calls[id].req.issuedWith /= Null
        => calls[id].req.auth = Bearer(calls[id].req.issuedWith)

\* C6: the step a workflow takes once its mutation request failed ends the
\* invocation with a failure, starts no request (no dashboard fetch) and
\* leaves the held snapshot as it was.
C6_FailedMutationNoRefresh ==
    [][\A id \in CallIds :
         (/\ id \in DOMAIN calls
          /\ calls[id].kind \in Workflows
          /\ calls[id].pc = "post"
          /\ calls[id].resp /= NoResp
          /\ ~calls[id].resp.ok
          /\ (id \notin DOMAIN calls' \/ calls'[id] /= calls[id]))
         => /\ id \notin DOMAIN calls'
            /\ \A k \in DOMAIN calls' : k \in DOMAIN calls /\ calls'[k] = calls[k]
            /\ calls[id].fetches = 0
            /\ dashboardData' = dashboardData
            /\ event'.result.kind = "failure"]_vars

C6_Witness ==
    /\ event.op \in Handlers
    /\ event.id > 0
    /\ event.result.kind = "failure"
    /\ event.call.fetches = 0
    /\ dashboardData /= NullObj

\* C7: the step that ends a failed dashboard fetch (the mount fetch or a
\* workflow's refresh) leaves the held snapshot unchanged.
C7_FailedFetchKeepsSnapshot ==
    [][\A id \in CallIds :
         (/\ id \in DOMAIN calls
          /\ calls[id].pc = "get"
          /\ calls[id].resp /= NoResp
          /\ ~calls[id].resp.ok
          /\ id \notin DOMAIN calls')
         => dashboardData' = dashboardData]_vars

C7_Witness ==
    /\ event.id > 0
    /\ event.call.pc = "get"
    /\ event.call.resp = HttpError(500, Null)
    /\ dashboardData /= NullObj
    /\ dashboardData.accounts /= << >>

\* C8: a workflow whose triggered refresh failed observes the failure: what
\* its await of fetchDashboardData() gave it differs from what a refresh
\* that succeeded gives, or it does not report success.
C8_RefreshFailureSignalled ==
    (/\ event.op \in Handlers
     /\ event.id > 0
     /\ event.call.pc = "get"
     /\ ~event.call.resp.ok)
    => \/ event.awaited /= FetchReturn(Ok(NullObj))
       \/ event.result.kind /= "success"

\* C9 as claimed: with the Dashboard mounted and no request in flight, the
\* held snapshot holds every mutation whose success the Dashboard was told of.
C9_ReadAfterWrite ==
    (calls = << >> /\ token /= Null /\ acked > 0)
    => /\ dashboardData /= NullObj
       /\ Len(dashboardData.recent_transactions) >= acked

\* C9 as amended: when the refresh a successful mutation triggered is
\* answered with success and its Dashboard is still mounted, the snapshot
\* held right after is that answer's body and holds the mutation.
C9_RefreshHoldsMutation ==
    (/\ event.op \in Handlers
     /\ event.id > 0
     /\ event.call.pc = "get"
     /\ event.call.resp.ok
     /\ Mounted(event.call.dash))
    => /\ event.call.commit > 0
       /\ dashboardData = event.call.resp.data
       /\ Len(dashboardData.recent_transactions) >= event.call.commit
       /\ Reverse(dashboardData.recent_transactions)[event.call.commit].transaction_type
            = TxOfKind(event.call.kind)

C9_Witness ==
    /\ event.op = "handleTransfer"
    /\ event.id > 0
    /\ event.call.pc = "get"
    /\ event.call.resp.ok
    /\ Mounted(event.call.dash)
    /\ Len(dashboardData.recent_transactions) = 2

\* C10: a workflow invocation issues its dashboard request only in the step
\* it takes on the success answer to its mutation request, it issues one on
\* every such answer, and it issues no second one.
C10_RefreshAfterSuccess ==
    [][\A id \in CallIds :
         LET before == id \in DOMAIN calls
             after == id \in DOMAIN calls'
         IN  /\ (/\ after
                 /\ calls'[id].kind \in Workflows
                 /\ calls'[id].pc = "get"
                 /\ (~before \/ calls[id].pc /= "get"))
                => /\ before
                   /\ calls[id].pc = "post"
                   /\ calls[id].resp /= NoResp
                   /\ calls[id].resp.ok
                   /\ calls'[id].fetches = 1
             /\ (/\ before
                 /\ calls[id].kind \in Workflows
                 /\ calls[id].pc = "post"
                 /\ calls[id].resp /= NoResp
                 /\ calls[id].resp.ok
                 /\ (~after \/ calls'[id] /= calls[id]))
                => /\ after
                   /\ calls'[id].pc = "get"
                   /\ calls'[id].req.endpoint = "dashboard"
                   /\ calls'[id].resp = NoResp
             /\ (/\ before
                 /\ calls[id].kind \in Workflows
                 /\ calls[id].pc = "get"
                 /\ after)
                => /\ calls'[id].req = calls[id].req
                   /\ calls'[id].fetches = 1]_vars

C10_Witness ==
    \E id \in DOMAIN calls :
        /\ calls[id].kind = "deposit"
        /\ calls[id].pc = "get"
        /\ calls[id].fetches = 1
        /\ calls[id].commit > 0

\* C11: a handleDeposit step whose prompt was cancelled, left empty or holds
\* text that does not parse to a number above zero starts no request and
\* changes neither the snapshot, the drafts nor the session; a step whose
\* prompt parses to a number above zero starts exactly one request, a
\* deposit for the pressed account with the parsed amount.
C11_DepositAmountGate ==
    [][\A a \in DepositAccounts, p \in PromptResults :
         handleDeposit(a, p) =>
            IF p = << >> \/ p[1] = << >> \/ ParseFloat(p[1]).nan \/ ParseFloat(p[1]).val <= 0
            THEN /\ calls' = calls
                 /\ nextId' = nextId
                 /\ UNCHANGED <<dashState, session, ledger>>
                 /\ event'.result = Silent
            ELSE /\ DOMAIN calls' = DOMAIN calls \cup {nextId}
                 /\ nextId \notin DOMAIN calls
                 /\ \A k \in DOMAIN calls : calls'[k] = calls[k]
                 /\ calls'[nextId].kind = "deposit"
                 /\ calls'[nextId].req.endpoint = "deposit"
                 /\ calls'[nextId].req.data.account = a
                 /\ calls'[nextId].req.data.amount = ParseFloat(p[1])
                 /\ calls'[nextId].fetches = 0
                 /\ UNCHANGED <<dashState, session, ledger>>]_vars

C11_Witness ==
    /\ event.op = "handleDeposit"
    /\ event.id = 0
    /\ event.result = Silent
    /\ \E id \in DOMAIN calls :
          /\ calls[id].kind = "deposit"
          /\ calls[id].pc = "post"
          /\ calls[id].req.data = [account |-> 2, amount |-> Number(10000)]

\* C12: every transfer and every bill-payment request was submitted with
\* all required fields filled in and an amount that parses to a number
\* above zero; a submission that lacks either starts no request.
C12_InvalidFormRejected ==
    \A id \in DOMAIN calls :
        (calls[id].kind \in {"transfer", "bill"} /\ calls[id].pc = "post")
        => /\ \A f \in DOMAIN calls[id].req.data \ {"account", "amount", "bill_type"} :
                 calls[id].req.data[f] /= << >>
           /\ Positive(calls[id].req.data.amount)

\* C13: in every reachable state the bill draft's bill_type is one of
\* electricity, gas, water, telecom, internet, and so is the bill_type of
\* every bill-payment request.
C13_BillTypeEnumerated ==
    /\ billData.bill_type \in BillTypes
    /\ \A id \in DOMAIN calls :
          (calls[id].kind = "bill" /\ calls[id].pc = "post")
          => calls[id].req.data.bill_type \in BillTypes

C13_Witness ==
    \E id \in DOMAIN calls :
        /\ calls[id].kind = "bill"
        /\ calls[id].pc = "post"
        /\ calls[id].req.data.bill_type = "gas"
        /\ billData.bill_type = "gas"

\* C14: the step that starts a transfer or bill-payment request sends it
\* for the id of the first account of the snapshot held in that step.
C14_FirstAccountIsSource ==
    [][\A id \in CallIds :
         (/\ id \notin DOMAIN calls
          /\ id \in DOMAIN calls'
          /\ calls'[id].kind \in {"transfer", "bill"})
         => /\ dashboardData /= NullObj
            /\ Len(dashboardData.accounts) > 0
            /\ calls'[id].req.data.account = dashboardData.accounts[1].id]_vars

C14_Witness ==
    /\ dashboardData /= NullObj
    /\ Len(dashboardData.accounts) = 2
    /\ \E i, j \in DOMAIN calls :
          /\ calls[i].kind = "transfer"
          /\ calls[j].kind = "bill"
          /\ calls[i].pc = "post"
          /\ calls[j].pc = "post"
          /\ calls[i].req.data.account = 1
          /\ calls[j].req.data.account = 1

\* C15: while a Dashboard stays on screen, a step changes the transfer
\* draft only if it is the user typing into that form or the end of a
\* handleTransfer invocation whose request succeeded, which leaves the
\* default draft; likewise the bill draft and handleBillPayment.  The end
\* of a failed invocation changes no draft, and the end of an invocation of
\* one workflow never changes the other workflow's draft.
C15_DraftResetOnlyOnSuccess ==
    [][(token /= Null /\ token' = token) =>
         /\ transferData' /= transferData
            => \/ \E f \in DOMAIN transferData : changeTransfer(f, transferData'[f])
               \/ /\ event'.op = "handleTransfer"
                  /\ event'.id > 0
                  /\ event'.call.commit > 0
                  /\ event'.result.kind = "success"
                  /\ transferData' = DefaultTransfer
         /\ billData' /= billData
            => \/ \E f \in DOMAIN billData : changeBill(f, billData'[f])
               \/ /\ event'.op = "handleBillPayment"
                  /\ event'.id > 0
                  /\ event'.call.commit > 0
                  /\ event'.result.kind = "success"
                  /\ billData' = DefaultBill
         /\ (event'.op \in Handlers /\ event'.result.kind /= "success")
            => (transferData' = transferData /\ billData' = billData)
         /\ event'.op = "handleTransfer" => billData' = billData
         /\ event'.op = "handleBillPayment" => transferData' = transferData
         /\ event'.op = "handleDeposit" => (transferData' = transferData /\ billData' = billData)]_vars

C15_Witness ==
    /\ event.op = "handleTransfer"
    /\ event.id > 0
    /\ event.result.kind = "success"
    /\ Mounted(event.call.dash)
    /\ transferData = DefaultTransfer
    /\ billData = [DefaultBill EXCEPT !.provider = StrText]

\* C16: no invocation of login, register, deposit, transfer or bill payment
\* ends with an exception leaving the handler.
C16_NoExceptionEscapes ==
    event.op \in AuthKinds \cup Handlers => event.result.kind /= "exception"

\* C17: when a login, register, deposit, transfer or bill payment ends in
\* failure, its message is the explanation the server sent in the error
\* payload (as it is, or behind the operation's fixed prefix) if there is
\* one, and the operation's fixed generic message otherwise.
C17_FailureMessagePrefersServer ==
    (event.id > 0 /\ event.result.kind = "failure")
    => LET resp == event.call.resp
           explained == resp.response /\ resp.detail /= Null /\ resp.detail /= ""
       IN  IF explained
           THEN event.result.message \in {resp.detail,
                                          "Transfer basarisiz: " \o resp.detail,
                                          "Odeme basarisiz: " \o resp.detail}
           ELSE event.result.message \in {"Login failed", "Registration failed",
                                          "Islem basarisiz!",
                                          "Transfer basarisiz: Bilinmeyen hata",
                                          "Odeme basarisiz: Bilinmeyen hata"}

\* C18: once an invocation ended on a request answered with HTTP 401, the
\* session holds neither token nor user.
C18_AuthFailureEndsSession ==
    (event.id > 0 /\ event.call.resp.response /\ event.call.resp.status = 401)
    => (token = Null /\ user = NullObj)

\* C19: when a dashboard fetch is answered with success from the same
\* ledger the held snapshot was read from (no transaction committed in
\* between, so the answer lists as many transactions as the snapshot),
\* installing the answer leaves the held snapshot with equal values.
C19_FetchIdempotent ==
    [][\A id \in CallIds :
         (/\ id \in DOMAIN calls
          /\ calls[id].pc = "get"
          /\ calls[id].resp /= NoResp
          /\ calls[id].resp.ok
          /\ id \notin DOMAIN calls'
          /\ Mounted(calls[id].dash)
          /\ dashboardData /= NullObj
          /\ Len(calls[id].resp.data.recent_transactions)
               = Len(dashboardData.recent_transactions))
         => dashboardData' = dashboardData]_vars

\* Two workflows committed one after the other, then each one's refresh was
\* answered from the ledger holding both, and both answers are installed.
C19_Witness ==
    /\ event.op \in Handlers
    /\ event.id > 0
    /\ event.call.pc = "get"
    /\ event.call.resp.ok
    /\ event.call.commit = 1
    /\ acked = 2
    /\ calls = << >>
    /\ dashboardData = event.call.resp.data
    /\ Len(dashboardData.recent_transactions) = 2
    /\ dashboardData.total_balance /= 0

\* C20: a workflow can be started while a request of the same workflow is
\* still awaiting its response: whenever the Dashboard shows a snapshot
\* with accounts and a deposit, transfer or bill-payment request is in
\* flight, pressing the same control again (with a valid form) starts
\* another request.
C20_NoInFlightGuard ==
    \A id \in DOMAIN calls :
        (/\ calls[id].kind \in Workflows
         /\ calls[id].pc = "post"
         /\ Mounted(calls[id].dash)
         /\ Idle
         /\ ~loading
         /\ dashboardData /= NullObj
         /\ Len(dashboardData.accounts) > 0
         /\ nextId <= MaxCalls)
        => CASE calls[id].kind = "deposit" ->
                  \A i \in 1..Len(dashboardData.accounts) :
                      ENABLED (/\ handleDeposit(dashboardData.accounts[i].id, <<Str100>>)
                               /\ nextId' = nextId + 1)
             [] calls[id].kind = "transfer" ->
                  TransferFormValid => ENABLED (handleTransfer /\ nextId' = nextId + 1)
             [] calls[id].kind = "bill" ->
                  BillFormValid => ENABLED (handleBillPayment /\ nextId' = nextId + 1)

\* Two transfer requests with the same content, submitted from the same
\* Dashboard, both in flight and both committed by the service.
C20_Witness ==
    \E i, j \in DOMAIN calls :
        /\ i < j
        /\ calls[i].kind = "transfer"
        /\ calls[j].kind = "transfer"
        /\ calls[i].pc = "post"
        /\ calls[j].pc = "post"
        /\ calls[i].dash = calls[j].dash
        /\ calls[i].req.data = calls[j].req.data
        /\ calls[i].commit > 0
        /\ calls[j].commit > 0
        /\ Len(ledger) >= 2

\* C21: whenever a dashboard fetch of the Dashboard on screen ends on a
\* success answer, the snapshot held right after is that answer's body,
\* whatever snapshot was held before and whichever request was issued first.
C21_LastResponseWins ==
    (/\ event.id > 0
     /\ event.call.pc = "get"
     /\ event.call.resp.ok
     /\ Mounted(event.call.dash))
    => dashboardData = event.call.resp.data

\* The refresh of the first committed workflow was answered before the
\* second workflow committed, yet its answer was installed over a snapshot
\* that already listed both transactions.
C21_Witness ==
    /\ event.op \in Handlers
    /\ event.id > 0
    /\ event.call.pc = "get"
    /\ event.call.resp.ok
    /\ Mounted(event.call.dash)
    /\ event.call.commit = 1
    /\ event.call.replaced = 2
    /\ Len(dashboardData.recent_transactions) = 1

\* C22: in every reachable state the held snapshot is absent or equals, in
\* all its fields, one body the service answered a dashboard request with
\* (the body of the accounts and of the ledger as it stood after some number
\* of commits); while the first fetch is still loading it is absent.
C22_SnapshotIsOneBody ==
    /\ dashboardData /= NullObj
       => \E n \in 0..Len(ledger) : dashboardData = Body(srvAccounts, SubSeq(ledger, 1, n))
    /\ loading => dashboardData = NullObj

C22_Witness ==
    /\ dashboardData /= NullObj
    /\ Len(ledger) = 2
    /\ dashboardData = Body(srvAccounts, SubSeq(ledger, 1, 1))
    /\ dashboardData.total_balance /= 0
    /\ calls = << >>

\* C23: with every request answered in the end, no workflow invocation stays
\* in flight for ever (again and again none is in flight, and an id is used
\* for one invocation only); the one step that takes an invocation out of
\* the invocations in flight ends it with a success or a failure, a success
\* only from the continuation of its awaited refresh, a failure only from
\* its failed request.
C23_SubmissionTerminates ==
    /\ []<>(\A id \in DOMAIN calls : calls[id].kind \notin Workflows)
    /\ [][\A id \in CallIds :
            /\ (id \in DOMAIN calls' /\ id \notin DOMAIN calls)
               => (id = nextId /\ nextId' = nextId + 1)
            /\ (id \in DOMAIN calls /\ calls[id].kind \in Workflows /\ id \notin DOMAIN calls')
               => /\ event'.id = id
                  /\ event'.result.kind \in {"success", "failure"}
                  /\ event'.result.kind = "success"
                     => (calls[id].pc = "get" /\ calls[id].resp /= NoResp
                         /\ calls[id].fetches = 1)
                  /\ event'.result.kind = "failure"
                     => (calls[id].pc = "post" /\ ~calls[id].resp.ok)]_vars

C23_Witness ==
    /\ event.op = "handleDeposit"
    /\ event.id > 0
    /\ event.id \notin DOMAIN calls
    /\ event.result.kind = "success"
    /\ event.call.pc = "get"
    /\ event.call.commit > 0
    /\ token = Null

\* C24: every dashboard and every mutation request was issued while the
\* session held a token.
C24_NoRequestWithoutToken ==
    \A id \in DOMAIN calls :
        calls[id].req.endpoint \in {"dashboard"} \cup Mutations
        => calls[id].req.issuedWith /= Null

\* C25: in every reachable state localStorage holds a token exactly when the
\* session does, and the same one; a step changes the token, the user or the
\* persisted token only if it ends a login, a register or a logout call.
C25_SessionOwnedByStore ==
    /\ [](storage = token)
    /\ [][(token' /= token \/ user' /= user \/ storage' /= storage)
           => event'.op \in {"login", "register", "logout"}]_vars

\* A restored session was logged out, a new one logged in, and a deposit
\* ran to its end.
C25_Witness ==
    /\ event.op = "handleDeposit"
    /\ event.id > 0
    /\ dashId = 2
    /\ token = "t2"
    /\ storage = "t2"
    /\ user = [email |-> "a@b.com"]

\* C26: a handleTransfer or handleBillPayment step taken while the held
\* snapshot lists no account starts no request (so no refresh either),
\* leaves both drafts and the snapshot as they are and shows neither a
\* success nor a failure.
C26_NoAccountNoSubmission ==
    [][(/\ dashboardData /= NullObj
        /\ Len(dashboardData.accounts) = 0
        /\ (handleTransfer \/ handleBillPayment))
       => /\ calls' = calls
          /\ nextId' = nextId
          /\ UNCHANGED <<dashState, session, ledger>>
          /\ event'.op \in {"handleTransfer", "handleBillPayment"}
          /\ event'.result.kind \notin {"success", "failure", "exception"}]_vars

C26_Witness ==
    /\ event.op = "handleTransfer"
    /\ event.id = 0
    /\ event.result.kind = "silent"
    /\ dashboardData /= NullObj
    /\ Len(dashboardData.accounts) = 0
    /\ TransferFormValid
    /\ calls = << >>

====
